---- MODULE Spec2Model ----
(***************************************************************************)
(* The chat example of axum-demo (src/examples/chat/src/main.rs): the     *)
(* presence registry (AppState.user_set), the broadcast bus (AppState.tx)  *)
(* and the per-connection handler `websocket` with its two spawned tasks. *)
(*                                                                         *)
(* Every session runs `websocket` once.  The handler and its two tasks    *)
(* run on a multi-threaded runtime (#[tokio::main]), so the steps of      *)
(* different sessions and of one session's tasks interleave freely.       *)
(* tokio's broadcast channel and JoinHandle::abort are library code; they  *)
(* are modelled by what they do at the places the handler calls them.     *)
(***************************************************************************)
EXTENDS Naturals, Sequences, FiniteSets

\* ---------------------------------------------------------------- bounds

\* Text frames the peers send after their names, over all connections.
MaxTexts == 1

\* The capacity given to broadcast::channel.  The program passes 100
\* (main.rs:30); the model scales it down so that lag is reachable.
Capacity == 2

\* The connections the model follows; each runs `websocket` once.
Sessions == {1, 2}

\* Contents of a first text frame: two names and the empty string.
Names == {"alice", "bob"}
FirstFrames == Names \cup {""}

\* Contents of a later text frame.
Texts == {"hi"}

\* -------------------------------------------------------------- the state

VARIABLES
    user_set,   \* AppState.user_set: the HashSet<String> behind the Mutex
    log,        \* every value sent on AppState.tx, in send order
    pc,         \* where each session's `websocket` future is
    username,   \* the local `username` of each session
    streamOver, \* receiver.next() has yielded what ended the loop reading it
    texts,      \* text frames the recv_tasks have taken from receiver.next()
    rx,         \* the session's broadcast::Receiver: "none", "live", "dropped"
    cursor,     \* rx.next: the position of the next value the receiver reads
    sendPc,     \* where send_task is
    recvPc,     \* where recv_task is
    sent,       \* the frames each session has given to sender.send(), in order
    \* What happened, kept for the properties; no action reads these.
    firstFrame, \* <<name>> once the session's first text frame was checked
    claimEpoch, \* how often that name had been removed before the check
    seenHolders,\* the sessions that held that name when it was checked
    released,   \* per name, how often it was removed from user_set
    lagged,     \* rx.recv() of the session has returned Err(Lagged)
    subAt,      \* the length of the log when the session subscribed
    readAt,     \* the log positions of the values rx.recv() returned
    pubAt,      \* the log positions of the texts recv_task published
    joined,     \* how many values the join step of the session published
    left,       \* how many values its teardown published
    removed,    \* how often the session called user_set.remove
    joinAt,     \* the log position of the session's join announcement
    senders,    \* the broadcast::Sender handles alive: AppState.tx and clones
    lock        \* the sessions that hold the guard of the user_set Mutex

vars == <<user_set, log, pc, username, streamOver, texts, rx, cursor,
          sendPc, recvPc, sent, firstFrame, claimEpoch, seenHolders,
          released, lagged, subAt, readAt, pubAt, joined, left, removed,
          joinAt, senders, lock>>

\* ------------------------------------------------------ pure functions

\* check_username without the membership test.
check_username_unchecked(set, string, name) ==
    [user_set |-> set \cup {name}, string |-> string \o name]

\* check_username with push_str after the if instead of inside it.
check_username_push_outside(set, string, name) ==
    [user_set |-> IF name \notin set THEN set \cup {name} ELSE set,
     string |-> string \o name]

\* check_username: under the lock, insert `name` and push it onto the
\* string when it is not yet a member; otherwise change nothing.
check_username(set, string, name) ==
    IF name \notin set
    THEN [user_set |-> set \cup {name}, string |-> string \o name]
    ELSE [user_set |-> set, string |-> string]

\* String::is_empty
is_empty(string) == string = ""

\* A remove that leaves the set as it is.
Remove_nothing(set, name) == set

\* HashSet::remove
Remove(set, name) == set \ {name}

\* format!("{username} joined.")
JoinedMsg(name) == name \o " joined."

\* format!("{username} left.")
LeftMsg(name) == name \o " left."

\* format!("{name}: {text}")
TextMsg(name, text) == name \o ": " \o text

\* The notice of the rejection path.
TakenMsg == "Username already taken."

\* usize::next_power_of_two
RECURSIVE PowerOfTwoFrom(_, _)
PowerOfTwoFrom(p, n) == IF p >= n THEN p ELSE PowerOfTwoFrom(2 * p, n)
next_power_of_two(n) == PowerOfTwoFrom(1, n)

\* broadcast::channel(capacity): the ring holds the capacity rounded up to
\* a power of two.
BufferLen == next_power_of_two(Capacity)

\* A send that rejects the value when the ring is full.
Publish_bounded(l, msg) == IF Len(l) >= BufferLen THEN l ELSE Append(l, msg)

\* Sender::send: the value takes the next position.  The receiver `rx`
\* that main keeps (main.rs:30) lives as long as the service, so the
\* receiver count is never 0 and send never fails.
Publish(l, msg) == Append(l, msg)

\* A subscribe that starts the receiver at the oldest retained value.
Subscribe_oldest(l) == IF Len(l) > BufferLen THEN Len(l) - BufferLen ELSE 0

\* A subscribe that starts the receiver one value after the tail.
Subscribe_ahead(l) == Len(l) + 1

\* Sender::subscribe: the new receiver starts at the tail.
Subscribe(l) == Len(l)

\* A recv that returns the newest value instead of the one at `next`.
Recv_newest(l, next) ==
    IF next = Len(l)
    THEN [kind |-> "empty", next |-> next, msg |-> ""]
    ELSE IF Len(l) - next > BufferLen
    THEN [kind |-> "lagged", next |-> Len(l) - BufferLen, msg |-> ""]
    ELSE [kind |-> "ok", next |-> next + 1, msg |-> l[Len(l)]]

\* Receiver::recv with the receiver at position `next`: nothing to read at
\* the tail; Lagged when the slot was overwritten, the receiver then moves
\* to the oldest retained value; otherwise the value at `next`.
Recv(l, next) ==
    IF next = Len(l)
    THEN [kind |-> "empty", next |-> next, msg |-> ""]
    ELSE IF Len(l) - next > BufferLen
    THEN [kind |-> "lagged", next |-> Len(l) - BufferLen, msg |-> ""]
    ELSE [kind |-> "ok", next |-> next + 1, msg |-> l[next + 1]]

\* A recv_task that takes a handle without making a new one.
CloneSender_move(n) == n

\* Line 88: let tx = state.tx.clone(): one more Sender handle, which
\* recv_task owns; it is dropped when the task ends or is cancelled.
CloneSender(n) == n + 1
DropSender(n) == n - 1

\* JoinHandle::abort, by where the task is.  A task suspended at its await
\* is cancelled there.  A task that is running on another worker goes on
\* to its next await first ("aborting"): abort cannot interrupt a poll.
\* A task that has completed stays completed.
AbortOutcomes(taskPc) ==
    IF taskPc \in {"recv", "wait"}
    THEN {"cancelled", "aborting"}
    ELSE {taskPc}

\* -------------------------------------------------------------- Init

Init ==
    /\ user_set = {}
    /\ log = <<>>
    /\ pc = [s \in Sessions |-> "naming"]
    /\ username = [s \in Sessions |-> ""]
    /\ streamOver = [s \in Sessions |-> FALSE]
    /\ texts = 0
    /\ rx = [s \in Sessions |-> "none"]
    /\ cursor = [s \in Sessions |-> 0]
    /\ sendPc = [s \in Sessions |-> "none"]
    /\ recvPc = [s \in Sessions |-> "none"]
    /\ sent = [s \in Sessions |-> <<>>]
    /\ firstFrame = [s \in Sessions |-> <<>>]
    /\ claimEpoch = [s \in Sessions |-> 0]
    /\ seenHolders = [s \in Sessions |-> {}]
    /\ released = [n \in FirstFrames |-> 0]
    /\ lagged = [s \in Sessions |-> FALSE]
    /\ subAt = [s \in Sessions |-> 0]
    /\ readAt = [s \in Sessions |-> <<>>]
    /\ pubAt = [s \in Sessions |-> {}]
    /\ joined = [s \in Sessions |-> 0]
    /\ left = [s \in Sessions |-> 0]
    /\ removed = [s \in Sessions |-> 0]
    /\ joinAt = [s \in Sessions |-> 0]
    /\ senders = 1
    /\ lock = {}

\* ------------------------------------------- websocket: the naming loop

\* A session holds its username from the successful check_username until
\* it has removed it (line 60-106).
Holds(s) ==
    /\ ~is_empty(username[s])
    /\ pc[s] \in {"subscribe", "join", "active", "release"}

\* Line 50: every connection runs the same handler, so the sessions are
\* numbered in the order in which they leave the naming loop.
Turn(s) == \A t \in Sessions : t < s => pc[t] # "naming"

\* Line 62, 112: the code only tests a name for emptiness and for equality
\* with the names in user_set, so the names are numbered in the order in
\* which the peers first send them: "alice" before "bob".
Fresh(name) ==
    name = "bob" => \E t \in Sessions : firstFrame[t] = <<"alice">>

\* A check_username whose guard outlives the call.
NamingText_keep_guard(s, name) ==
    /\ pc[s] = "naming"
    /\ Turn(s)
    /\ Fresh(name)
    /\ LET r == check_username(user_set, username[s], name) IN
        /\ user_set' = r.user_set
        /\ username' = [username EXCEPT ![s] = r.string]
        /\ pc' = [pc EXCEPT ![s] =
                    IF ~is_empty(r.string) THEN "subscribe" ELSE "reject"]
    /\ firstFrame' = [firstFrame EXCEPT ![s] = <<name>>]
    /\ claimEpoch' = [claimEpoch EXCEPT ![s] = released[name]]
    /\ seenHolders' = [seenHolders EXCEPT ![s] =
                        {t \in Sessions : Holds(t) /\ username[t] = name}]
    /\ UNCHANGED <<log, streamOver, texts, rx, cursor, sendPc, recvPc, sent,
                   released, lagged>>
    /\ UNCHANGED <<subAt, readAt, pubAt, joined, left, removed>>
    /\ lock = {}       \* line 110: user_set.lock() is granted
    /\ lock' = {s}
    /\ UNCHANGED <<joinAt, senders>>

\* Line 58-63, 65: a text frame arrives; check_username runs under the
\* lock; a non-empty username leaves the loop, an empty one goes to the
\* rejection.
NamingText(s, name) ==
    /\ pc[s] = "naming"
    /\ Turn(s)
    /\ Fresh(name)
    /\ LET r == check_username(user_set, username[s], name) IN
        /\ user_set' = r.user_set
        /\ username' = [username EXCEPT ![s] = r.string]
        /\ pc' = [pc EXCEPT ![s] =
                    IF ~is_empty(r.string) THEN "subscribe" ELSE "reject"]
    /\ firstFrame' = [firstFrame EXCEPT ![s] = <<name>>]
    /\ claimEpoch' = [claimEpoch EXCEPT ![s] = released[name]]
    /\ seenHolders' = [seenHolders EXCEPT ![s] =
                        {t \in Sessions : Holds(t) /\ username[t] = name}]
    /\ UNCHANGED <<log, streamOver, texts, rx, cursor, sendPc, recvPc, sent,
                   released, lagged>>
    /\ UNCHANGED <<subAt, readAt, pubAt, joined, left, removed>>
    /\ lock = {}       \* line 110: user_set.lock() is granted
    /\ lock' = {}      \* line 116: the guard is dropped on return
    /\ UNCHANGED <<joinAt, senders>>

\* Line 58-59, 71: a frame that is not Message::Text; the loop goes on.
NamingOther(s) ==
    /\ pc[s] = "naming"
    /\ UNCHANGED vars

\* Line 58, 72: receiver.next() returns None or Some(Err): the while-let
\* ends and the handler continues after the loop, with username empty.
NamingEnd(s) ==
    /\ pc[s] = "naming"
    /\ Turn(s)
    /\ streamOver' = [streamOver EXCEPT ![s] = TRUE]
    /\ pc' = [pc EXCEPT ![s] = "subscribe"]
    /\ UNCHANGED <<user_set, log, username, texts, rx, cursor, sendPc,
                   recvPc, sent, firstFrame, claimEpoch, seenHolders, released, lagged>>
    /\ UNCHANGED <<subAt, readAt, pubAt, joined, left, removed>>
    /\ UNCHANGED <<joinAt, senders, lock>>

\* A rejection that returns without sending the notice.
Reject_silent(s) ==
    /\ pc[s] = "reject"
    /\ pc' = [pc EXCEPT ![s] = "closed"]
    /\ UNCHANGED <<user_set, log, username, streamOver, texts, rx, cursor,
                   sendPc, recvPc, sent, firstFrame, claimEpoch, seenHolders,
                   released, lagged>>
    /\ UNCHANGED <<subAt, readAt, pubAt, joined, left, removed>>
    /\ UNCHANGED <<joinAt, senders, lock>>

\* A rejection that sends the notice and goes back to the naming loop.
Reject_retry(s) ==
    /\ pc[s] = "reject"
    /\ sent' = [sent EXCEPT ![s] = Append(@, TakenMsg)]
    /\ pc' = [pc EXCEPT ![s] = "naming"]
    /\ UNCHANGED <<user_set, log, username, streamOver, texts, rx, cursor,
                   sendPc, recvPc, firstFrame, claimEpoch, seenHolders, released, lagged>>
    /\ UNCHANGED <<subAt, readAt, pubAt, joined, left, removed>>
    /\ UNCHANGED <<joinAt, senders, lock>>

\* Line 65-69: send the notice, discard the result, return.
Reject(s) ==
    /\ pc[s] = "reject"
    /\ sent' = [sent EXCEPT ![s] = Append(@, TakenMsg)]
    /\ pc' = [pc EXCEPT ![s] = "closed"]
    /\ UNCHANGED <<user_set, log, username, streamOver, texts, rx, cursor,
                   sendPc, recvPc, firstFrame, claimEpoch, seenHolders, released, lagged>>
    /\ UNCHANGED <<subAt, readAt, pubAt, joined, left, removed>>
    /\ UNCHANGED <<joinAt, senders, lock>>

\* ------------------------------------- websocket: subscribe, join, spawn

\* Line 74: let mut rx = state.tx.subscribe().
SubscribeStep(s) ==
    /\ pc[s] = "subscribe"
    /\ rx' = [rx EXCEPT ![s] = "live"]
    /\ cursor' = [cursor EXCEPT ![s] = Subscribe(log)]
    /\ pc' = [pc EXCEPT ![s] = "join"]
    /\ UNCHANGED <<user_set, log, username, streamOver, texts, sendPc,
                   recvPc, sent, firstFrame, claimEpoch, seenHolders, released, lagged>>
    /\ subAt' = [subAt EXCEPT ![s] = Len(log)]
    /\ UNCHANGED <<readAt, pubAt, joined, left, removed>>
    /\ UNCHANGED <<joinAt, senders, lock>>

\* A join step that publishes the announcement twice.
Join_twice(s) ==
    /\ pc[s] = "join"
    /\ log' = Publish(Publish(log, JoinedMsg(username[s])),
                      JoinedMsg(username[s]))
    /\ sendPc' = [sendPc EXCEPT ![s] = "recv"]
    /\ recvPc' = [recvPc EXCEPT ![s] = "wait"]
    /\ pc' = [pc EXCEPT ![s] = "active"]
    /\ UNCHANGED <<user_set, username, streamOver, texts, rx, cursor, sent,
                   firstFrame, claimEpoch, seenHolders, released, lagged>>
    /\ joined' = [joined EXCEPT ![s] = @ + Len(log') - Len(log)]
    /\ UNCHANGED <<subAt, readAt, pubAt, left, removed>>
    /\ joinAt' = [joinAt EXCEPT ![s] = Len(log')]
    /\ senders' = CloneSender(senders)
    /\ UNCHANGED <<lock>>

\* Line 76-95: publish "{username} joined."; spawn send_task, which takes
\* rx and sender, and recv_task, which takes receiver and a clone of tx.
Join(s) ==
    /\ pc[s] = "join"
    /\ log' = Publish(log, JoinedMsg(username[s]))
    /\ sendPc' = [sendPc EXCEPT ![s] = "recv"]
    /\ recvPc' = [recvPc EXCEPT ![s] = "wait"]
    /\ pc' = [pc EXCEPT ![s] = "active"]
    /\ UNCHANGED <<user_set, username, streamOver, texts, rx, cursor, sent,
                   firstFrame, claimEpoch, seenHolders, released, lagged>>
    /\ joined' = [joined EXCEPT ![s] = @ + Len(log') - Len(log)]
    /\ UNCHANGED <<subAt, readAt, pubAt, left, removed>>
    /\ joinAt' = [joinAt EXCEPT ![s] = Len(log')]
    /\ senders' = CloneSender(senders)
    /\ UNCHANGED <<lock>>

\* ------------------------------------------------------------ send_task

\* A task that is not cancelled is at its await or, after abort, still
\* running towards it.
SendRuns(s) == sendPc[s] \in {"recv", "aborting"}
RecvRuns(s) == recvPc[s] \in {"wait", "aborting"}

\* How a task ends: it completes, or it ends under a pending abort.
Ended(taskPc) == IF taskPc = "aborting" THEN "cancelled" ELSE "done"

\* A pump that does not write a session's own texts back to its peer.
SendOk_no_echo(s) ==
    /\ SendRuns(s)
    /\ LET r == Recv(log, cursor[s]) IN
        /\ r.kind = "ok"
        /\ cursor' = [cursor EXCEPT ![s] = r.next]
        /\ sent' = [sent EXCEPT ![s] =
                        IF cursor[s] + 1 \in pubAt[s] THEN @ ELSE Append(@, r.msg)]
        /\ readAt' = [readAt EXCEPT ![s] =
                        IF cursor[s] + 1 \in pubAt[s] THEN @
                        ELSE Append(@, cursor[s] + 1)]
    /\ UNCHANGED <<user_set, log, pc, username, streamOver, texts, rx,
                   sendPc, recvPc, firstFrame, claimEpoch, seenHolders, released, lagged>>
    /\ UNCHANGED <<subAt, pubAt, joined, left, removed>>
    /\ UNCHANGED <<joinAt, senders, lock>>

\* Line 81-82: rx.recv() returns Ok(msg) and sender.send(Message::Text(msg))
\* succeeds; back to rx.recv().
SendOk(s) ==
    /\ SendRuns(s)
    /\ LET r == Recv(log, cursor[s]) IN
        /\ r.kind = "ok"
        /\ cursor' = [cursor EXCEPT ![s] = r.next]
        /\ sent' = [sent EXCEPT ![s] = Append(@, r.msg)]
    /\ UNCHANGED <<user_set, log, pc, username, streamOver, texts, rx,
                   sendPc, recvPc, firstFrame, claimEpoch, seenHolders, released, lagged>>
    /\ readAt' = [readAt EXCEPT ![s] = Append(@, cursor[s] + 1)]
    /\ UNCHANGED <<subAt, pubAt, joined, left, removed>>
    /\ UNCHANGED <<joinAt, senders, lock>>

\* Line 81-84: rx.recv() returns Ok(msg) and sender.send fails; break.  The
\* task ends and drops rx.
SendErr(s) ==
    /\ SendRuns(s)
    /\ LET r == Recv(log, cursor[s]) IN
        /\ r.kind = "ok"
        /\ sent' = [sent EXCEPT ![s] = Append(@, r.msg)]
    /\ sendPc' = [sendPc EXCEPT ![s] = Ended(@)]
    /\ rx' = [rx EXCEPT ![s] = "dropped"]
    /\ cursor' = [cursor EXCEPT ![s] = 0]
    /\ UNCHANGED <<user_set, log, pc, username, streamOver, texts, recvPc,
                   firstFrame, claimEpoch, seenHolders, released, lagged>>
    /\ readAt' = [readAt EXCEPT ![s] = Append(@, cursor[s] + 1)]
    /\ UNCHANGED <<subAt, pubAt, joined, left, removed>>
    /\ UNCHANGED <<joinAt, senders, lock>>

\* Line 81: rx.recv() returns Err(Lagged(n)); `while let Ok(msg)` does not
\* match, the loop and the task end, and rx is dropped.
SendLagged(s) ==
    /\ SendRuns(s)
    /\ Recv(log, cursor[s]).kind = "lagged"
    /\ lagged' = [lagged EXCEPT ![s] = TRUE]
    /\ sendPc' = [sendPc EXCEPT ![s] = Ended(@)]
    /\ rx' = [rx EXCEPT ![s] = "dropped"]
    /\ cursor' = [cursor EXCEPT ![s] = 0]
    /\ UNCHANGED <<user_set, log, pc, username, streamOver, texts, recvPc,
                   sent, firstFrame, claimEpoch, seenHolders, released>>
    /\ UNCHANGED <<subAt, readAt, pubAt, joined, left, removed>>
    /\ UNCHANGED <<joinAt, senders, lock>>

\* The aborted send_task reaches an await and is cancelled; rx is dropped.
SendCancel(s) ==
    /\ sendPc[s] = "aborting"
    /\ sendPc' = [sendPc EXCEPT ![s] = "cancelled"]
    /\ rx' = [rx EXCEPT ![s] = "dropped"]
    /\ cursor' = [cursor EXCEPT ![s] = 0]
    /\ UNCHANGED <<user_set, log, pc, username, streamOver, texts, recvPc,
                   sent, firstFrame, claimEpoch, seenHolders, released, lagged>>
    /\ UNCHANGED <<subAt, readAt, pubAt, joined, left, removed>>
    /\ UNCHANGED <<joinAt, senders, lock>>

\* ------------------------------------------------------------ recv_task

\* A recv_task that publishes every text twice.
RecvText_twice(s, text) ==
    /\ RecvRuns(s)
    /\ ~streamOver[s]
    /\ texts < MaxTexts
    /\ texts' = texts + 1
    /\ log' = Publish(Publish(log, TextMsg(username[s], text)),
                      TextMsg(username[s], text))
    /\ UNCHANGED <<user_set, pc, username, streamOver, rx, cursor, sendPc,
                   recvPc, sent, firstFrame, claimEpoch, seenHolders, released, lagged>>
    /\ pubAt' = [pubAt EXCEPT ![s] = @ \cup {Len(log')}]
    /\ UNCHANGED <<subAt, readAt, joined, left, removed>>
    /\ UNCHANGED <<joinAt, senders, lock>>

\* Line 92-93: receiver.next() yields Some(Ok(Message::Text(text))) and
\* tx.send(format!("{name}: {text}")) publishes it; back to receiver.next().
RecvText(s, text) ==
    /\ RecvRuns(s)
    /\ ~streamOver[s]
    /\ texts < MaxTexts
    /\ texts' = texts + 1
    /\ log' = Publish(log, TextMsg(username[s], text))
    /\ UNCHANGED <<user_set, pc, username, streamOver, rx, cursor, sendPc,
                   recvPc, sent, firstFrame, claimEpoch, seenHolders, released, lagged>>
    /\ pubAt' = [pubAt EXCEPT ![s] = @ \cup {Len(log')}]
    /\ UNCHANGED <<subAt, readAt, joined, left, removed>>
    /\ UNCHANGED <<joinAt, senders, lock>>

\* Line 92: receiver.next() yields a frame that is not Message::Text; the
\* while-let pattern does not match and the task ends.
RecvOther(s) ==
    /\ recvPc[s] = "wait"
    /\ ~streamOver[s]
    /\ streamOver' = [streamOver EXCEPT ![s] = TRUE]
    /\ recvPc' = [recvPc EXCEPT ![s] = "done"]
    /\ UNCHANGED <<user_set, log, pc, username, texts, rx, cursor, sendPc,
                   sent, firstFrame, claimEpoch, seenHolders, released, lagged>>
    /\ UNCHANGED <<subAt, readAt, pubAt, joined, left, removed>>
    /\ senders' = DropSender(senders)
    /\ UNCHANGED <<joinAt, lock>>

\* Line 92: receiver.next() yields None or Some(Err); the task ends.
RecvEnd(s) ==
    /\ recvPc[s] = "wait"
    /\ streamOver' = [streamOver EXCEPT ![s] = TRUE]
    /\ recvPc' = [recvPc EXCEPT ![s] = "done"]
    /\ UNCHANGED <<user_set, log, pc, username, texts, rx, cursor, sendPc,
                   sent, firstFrame, claimEpoch, seenHolders, released, lagged>>
    /\ UNCHANGED <<subAt, readAt, pubAt, joined, left, removed>>
    /\ senders' = DropSender(senders)
    /\ UNCHANGED <<joinAt, lock>>

\* The aborted recv_task reaches an await and is cancelled.
RecvCancel(s) ==
    /\ recvPc[s] = "aborting"
    /\ recvPc' = [recvPc EXCEPT ![s] = "cancelled"]
    /\ UNCHANGED <<user_set, log, pc, username, streamOver, texts, rx,
                   cursor, sendPc, sent, firstFrame, claimEpoch, seenHolders, released,
                   lagged>>
    /\ UNCHANGED <<subAt, readAt, pubAt, joined, left, removed>>
    /\ senders' = DropSender(senders)
    /\ UNCHANGED <<joinAt, lock>>

\* -------------------------------------- websocket: select and teardown

\* Line 98, 102-104: send_task completed; recv_task.abort(); publish
\* "{username} left.".
SelectSend(s) ==
    /\ pc[s] = "active"
    /\ sendPc[s] = "done"
    /\ \E o \in AbortOutcomes(recvPc[s]) :
            recvPc' = [recvPc EXCEPT ![s] = o]
    /\ log' = Publish(log, LeftMsg(username[s]))
    /\ pc' = [pc EXCEPT ![s] = "release"]
    /\ UNCHANGED <<user_set, username, streamOver, texts, rx, cursor,
                   sendPc, sent, firstFrame, claimEpoch, seenHolders, released, lagged>>
    /\ left' = [left EXCEPT ![s] = @ + Len(log') - Len(log)]
    /\ UNCHANGED <<subAt, readAt, pubAt, joined, removed>>
    /\ senders' = IF recvPc[s] = "wait" /\ recvPc'[s] = "cancelled"
                    THEN DropSender(senders) ELSE senders
    /\ UNCHANGED <<joinAt, lock>>

\* Line 99, 102-104: recv_task completed; send_task.abort(); publish
\* "{username} left.".  A send_task cancelled at its await drops rx.
SelectRecv(s) ==
    /\ pc[s] = "active"
    /\ recvPc[s] = "done"
    /\ \E o \in AbortOutcomes(sendPc[s]) :
        /\ sendPc' = [sendPc EXCEPT ![s] = o]
        /\ rx' = [rx EXCEPT ![s] = IF o = "cancelled" THEN "dropped" ELSE @]
        /\ cursor' = [cursor EXCEPT ![s] = IF o = "cancelled" THEN 0 ELSE @]
    /\ log' = Publish(log, LeftMsg(username[s]))
    /\ pc' = [pc EXCEPT ![s] = "release"]
    /\ UNCHANGED <<user_set, username, streamOver, texts, recvPc, sent,
                   firstFrame, claimEpoch, seenHolders, released, lagged>>
    /\ left' = [left EXCEPT ![s] = @ + Len(log') - Len(log)]
    /\ UNCHANGED <<subAt, readAt, pubAt, joined, removed>>
    /\ UNCHANGED <<joinAt, senders, lock>>

\* Line 106-107: remove the username under the lock and return.
Release(s) ==
    /\ pc[s] = "release"
    /\ user_set' = Remove(user_set, username[s])
    /\ released' = [released EXCEPT ![username[s]] =
                        IF username[s] \in user_set /\ username[s] \notin user_set'
                        THEN @ + 1 ELSE @]
    /\ pc' = [pc EXCEPT ![s] = "closed"]
    /\ UNCHANGED <<log, username, streamOver, texts, rx, cursor, sendPc,
                   recvPc, sent, firstFrame, claimEpoch, seenHolders, lagged>>
    /\ removed' = [removed EXCEPT ![s] = @ + 1]
    /\ UNCHANGED <<subAt, readAt, pubAt, joined, left>>
    /\ lock = {}       \* line 106: user_set.lock() is granted
    /\ lock' = {}      \* line 106: the guard is dropped with the statement
    /\ UNCHANGED <<joinAt, senders>>

\* ---------------------------------------------------- the specification

Next ==
    \E s \in Sessions :
        \/ \E name \in FirstFrames : NamingText(s, name)
        \/ NamingOther(s)
        \/ NamingEnd(s)
        \/ Reject(s)
        \/ SubscribeStep(s)
        \/ Join(s)
        \/ SendOk(s)
        \/ SendErr(s)
        \/ SendLagged(s)
        \/ SendCancel(s)
        \/ \E text \in Texts : RecvText(s, text)
        \/ RecvOther(s)
        \/ RecvEnd(s)
        \/ RecvCancel(s)
        \/ SelectSend(s)
        \/ SelectRecv(s)
        \/ Release(s)

Spec == Init /\ [][Next]_vars

\* Line 97-107: the steps of the handler from select! to its return.
Teardown(s) == SelectSend(s) \/ SelectRecv(s) \/ Release(s)

\* The runtime polls a handler whose select! has a completed task to
\* observe, and a handler that has no await left before its return.
FairSpec == Spec /\ \A s \in Sessions : WF_vars(Teardown(s))

\* ------------------------------------------------------------ properties

\* What a session did with its first text frame.
Attempted(s) == firstFrame[s] # <<>>
Asked(s) == firstFrame[s][1]
Claimed(s) == Attempted(s) /\ ~is_empty(username[s])
Rejected(s) == Attempted(s) /\ is_empty(username[s])

SameRace(s, t) ==
    /\ s # t
    /\ Attempted(s) /\ Attempted(t)
    /\ Asked(s) = Asked(t)
    /\ Asked(s) \in Names
    /\ claimEpoch[s] = claimEpoch[t]

C3_ClaimUntilRelease ==
    /\ \A s, t \in Sessions :
            (s # t /\ Claimed(s) /\ Claimed(t) /\ Asked(s) = Asked(t))
                => claimEpoch[s] # claimEpoch[t]
    /\ \A t \in Sessions :
            (Attempted(t) /\ Asked(t) \in Names) =>
                /\ Claimed(t) <=> seenHolders[t] = {}
                /\ Rejected(t) =>
                        \E s \in seenHolders[t] :
                            /\ Claimed(s) /\ Asked(s) = Asked(t)
                            /\ claimEpoch[s] = claimEpoch[t]

\* A session claimed a name, removed it and closed; the next session then
\* sent the same name and claimed it.
C3_Witness ==
    \E s, t \in Sessions :
        /\ s # t
        /\ Claimed(s) /\ pc[s] = "closed"
        /\ Claimed(t) /\ Asked(t) = Asked(s)
        /\ claimEpoch[t] = claimEpoch[s] + 1

\* C4: the names stored in user_set are exactly the names held by the
\* sessions that have claimed one and have not yet closed.
C4_RegistryEqualsHeldNames ==
    user_set = {username[s] : s \in {t \in Sessions : Holds(t)}}

\* The name of a closed session is not left behind in user_set: it is
\* absent, or a session that claimed it anew holds it.
NoLeak(s) ==
    username[s] \in user_set =>
        \E t \in Sessions \ {s} : Holds(t) /\ username[t] = username[s]

\* C5: once one of the pumps of a session that claimed a name has ended,
\* the session eventually closes with its name removed from user_set.
C5_PumpEndReleasesName ==
    \A s \in Sessions :
        (Claimed(s) /\ pc[s] = "active"
            /\ (sendPc[s] = "done" \/ recvPc[s] = "done"))
        ~> (pc[s] = "closed" /\ NoLeak(s))

\* A session has removed its name and closed while its aborted recv_task
\* was still running, and the next session has claimed the same name.
C5_Witness ==
    \E s, t \in Sessions :
        /\ s # t
        /\ Claimed(s) /\ pc[s] = "closed" /\ recvPc[s] = "aborting"
        /\ Claimed(t) /\ Asked(t) = Asked(s) /\ Holds(t)
        /\ claimEpoch[t] = claimEpoch[s] + 1

\* C6: after rx.recv() returned Lagged the outbound pump is still in its
\* loop and the session is still Active.
C6_LaggedPumpContinues ==
    \A s \in Sessions :
        lagged[s] => (SendRuns(s) /\ pc[s] = "active" /\ rx[s] = "live")

\* C7: a session whose stream ended before any text frame never
\* subscribes, starts no pump and publishes no announcement.
C7_NoNameNoSession ==
    \A s \in Sessions :
        (streamOver[s] /\ ~Attempted(s)) =>
            /\ rx[s] = "none"
            /\ sendPc[s] = "none" /\ recvPc[s] = "none"
            /\ \A i \in DOMAIN log :
                    log[i] \notin {JoinedMsg(username[s]), LeftMsg(username[s])}

\* C8: a session whose claim failed because the name was in user_set is
\* given exactly one frame, "Username already taken.": nothing before the
\* rejection writes it, and nothing else is ever written to it.
C8_OneRejectionFrame ==
    \A s \in Sessions :
        (Rejected(s) /\ seenHolders[s] # {}) =>
            /\ pc[s] = "reject" => sent[s] = <<>>
            /\ pc[s] # "reject" => (pc[s] = "closed" /\ sent[s] = <<TakenMsg>>)

\* A session that sent a name another session holds has closed with the
\* notice as its only frame, while the holder has published since.
C8_Witness ==
    \E s, t \in Sessions :
        /\ Rejected(s) /\ t \in seenHolders[s]
        /\ pc[s] = "closed" /\ sent[s] = <<TakenMsg>>
        /\ Holds(t) /\ Len(log) >= 2

\* C9: a session whose claim is rejected never subscribes or starts a
\* pump, and neither its failed check nor its termination changes the
\* registry or publishes to the bus.
C9_RejectedChangesNothing ==
    /\ [](\A s \in Sessions :
            Rejected(s) =>
                /\ pc[s] \in {"reject", "closed"}
                /\ rx[s] = "none" /\ sendPc[s] = "none" /\ recvPc[s] = "none")
    /\ [][\A s \in Sessions :
            (pc[s] # pc'[s] /\ pc'[s] \in {"reject", "closed"} /\ Rejected(s)')
                => (user_set' = user_set /\ log' = log)]_vars

\* The events of a session named bob that sends the text "hi".
IsBobMsg(m) == m \in {JoinedMsg("bob"), TextMsg("bob", "hi"), LeftMsg("bob")}
FromBob(q) == SelectSeq(q, IsBobMsg)
BobOrder == <<JoinedMsg("bob"), TextMsg("bob", "hi"), LeftMsg("bob")>>

\* The only session named bob has published "hi", has closed, and both
\* of its tasks have ended.
BobDone(s) ==
    /\ username[s] = "bob"
    /\ \A t \in Sessions \ {s} : username[t] # "bob"
    /\ pc[s] = "closed"
    /\ ~SendRuns(s) /\ ~RecvRuns(s)
    /\ \E i \in DOMAIN log : log[i] = TextMsg("bob", "hi")

\* C10: bob joins, sends "hi" and disconnects: the bus holds bob's
\* joined, text and left in this order, and another session that did not
\* lag and was given all three was given them in this order.
C10_JoinTextLeftOrder ==
    \A s \in Sessions :
        BobDone(s) =>
            /\ FromBob(log) = BobOrder
            /\ \A t \in Sessions \ {s} :
                    (~lagged[t] /\ Len(FromBob(sent[t])) = 3)
                        => FromBob(sent[t]) = BobOrder

\* ------------------------------------------------- properties of the bus

\* The session has subscribed and rx.recv() has never returned Lagged.
NeverLagged(s) == rx[s] # "none" /\ ~lagged[s]

\* C11: the frames given to the peer of a subscriber that never lagged
\* are the values published after its subscription, one frame per value,
\* in publish order with none missing, moved or repeated; and two such
\* subscribers have the values both were given in the same order with the
\* same content.
C11_PublishOrderDelivery ==
    /\ \A s \in Sessions :
            NeverLagged(s) =>
                /\ Len(sent[s]) = Len(readAt[s])
                /\ \A k \in DOMAIN sent[s] :
                        /\ readAt[s][k] = subAt[s] + k
                        /\ sent[s][k] = log[readAt[s][k]]
                /\ rx[s] = "live" => cursor[s] = subAt[s] + Len(sent[s])
    /\ \A s, t \in Sessions :
            (s < t /\ NeverLagged(s) /\ NeverLagged(t)) =>
                \A i \in DOMAIN readAt[s] : \A k \in DOMAIN readAt[t] :
                    readAt[s][i] = readAt[t][k] =>
                        /\ sent[s][i] = sent[t][k]
                        /\ \A j \in DOMAIN readAt[s] : \A l \in DOMAIN readAt[t] :
                                readAt[s][j] = readAt[t][l]
                                    => ((i < j) <=> (k < l))

\* Two subscribers that never lagged and subscribed at different times
\* have each been given at least two values, two of them in common.
C11_Witness ==
    \E s, t \in Sessions :
        /\ s # t
        /\ NeverLagged(s) /\ NeverLagged(t)
        /\ subAt[s] < subAt[t]
        /\ Len(sent[t]) >= 2
        /\ \A k \in DOMAIN readAt[t] :
                \E i \in DOMAIN readAt[s] : readAt[s][i] = readAt[t][k]

\* C12: rx.recv() never returns a value at a position the subscriber has
\* already been given or passed; and the step in which it returns Lagged
\* to the pump of an Active session leaves the receiver subscribed, at
\* the oldest retained value, with the pump in its loop to go on from
\* there.
C12_LagThenResume ==
    /\ [](\A s \in Sessions :
            \A i, j \in DOMAIN readAt[s] :
                i < j => readAt[s][i] < readAt[s][j])
    /\ [][\A s \in Sessions :
            (~lagged[s] /\ lagged'[s] /\ pc[s] = "active" /\ sendPc[s] = "recv")
                => /\ rx'[s] = "live"
                   /\ sendPc'[s] = "recv"
                   /\ cursor'[s] = Len(log) - BufferLen]_vars

\* The values published that the receiver of a subscriber has not read.
Unread(s) == Len(log) - cursor[s]

\* A step in which a handler or a recv_task calls tx.send: the join
\* (line 78), a text (line 93) or the leave (line 104).
Publishes ==
    \/ texts' # texts
    \/ \E s \in Sessions :
        \/ pc[s] = "join" /\ pc'[s] = "active"
        \/ pc[s] = "active" /\ pc'[s] = "release"

C14_NoReplay ==
    \A s \in Sessions :
        /\ \A k \in DOMAIN readAt[s] : readAt[s][k] > subAt[s]
        /\ rx[s] = "live" => cursor[s] >= subAt[s]

\* A session subscribed when values had already been published, and has
\* been given a value since.
C14_Witness ==
    \E s \in Sessions :
        /\ subAt[s] >= 2
        /\ Len(readAt[s]) >= 1
        /\ sent[s][1] = log[subAt[s] + 1]

\* The session is Active with its subscription in place and no lag.
ActiveNoLag(s) == pc[s] = "active" /\ rx[s] = "live" /\ ~lagged[s]

\* C15: once the pump of an Active session that has not lagged has moved
\* past a text the session itself published, that text is among the
\* frames given to the session's own peer.
C15_SelfEcho ==
    \A s \in Sessions :
        ActiveNoLag(s) =>
            \A i \in pubAt[s] :
                /\ i > subAt[s]
                /\ cursor[s] >= i =>
                        \E k \in DOMAIN sent[s] :
                            /\ readAt[s][k] = i
                            /\ log[i] = sent[s][k]
                            /\ \E text \in Texts :
                                    sent[s][k] = TextMsg(username[s], text)

\* An Active session has been given its own text back.
C15_Witness ==
    \E s \in Sessions :
        /\ ActiveNoLag(s)
        /\ \E i \in pubAt[s] : \E k \in DOMAIN sent[s] :
                readAt[s][k] = i /\ sent[s][k] = TextMsg(username[s], "hi")

\* -------------------------------------------- properties of the lifecycle

\* The session has subscribed or is past it: subscribing, announcing,
\* relaying or tearing down.
InSession(s) == pc[s] \in {"subscribe", "join", "active", "release"}

\* C16: user_set never contains the empty string, and no session that is
\* subscribing, announcing or relaying has an empty username.
C16_NamesNonEmpty ==
    /\ "" \notin user_set
    /\ \A s \in Sessions : InSession(s) => ~is_empty(username[s])

\* C17: a session that claimed a name has published its join only after
\* check_username inserted the name, and has published its leave only
\* after it removed the name from user_set.
C17_AnnounceAfterRegistry ==
    \A s \in Sessions :
        Claimed(s) =>
            /\ joined[s] > 0 => firstFrame[s] = <<username[s]>>
            /\ left[s] > 0 => (removed[s] > 0 /\ NoLeak(s))

\* The handler is at select! with a task completed, about to publish the
\* leave.
AtSelect(s) ==
    pc[s] = "active" /\ (sendPc[s] = "done" \/ recvPc[s] = "done")

\* C18: the teardown publishes the leave first and removes the name
\* second, and the session's receiver still exists when the leave is
\* published and when the name is removed.
C18_TeardownOrder ==
    \A s \in Sessions :
        /\ removed[s] > 0 => left[s] > 0
        /\ (AtSelect(s) \/ pc[s] = "release") => rx[s] = "live"

\* The session has been Active: it is relaying or tearing down, or it has
\* closed after having subscribed (a rejected session closes without).
EverActive(s) ==
    \/ pc[s] \in {"active", "release"}
    \/ pc[s] = "closed" /\ rx[s] # "none"

\* C19: a session becomes Active at most once.  A session that has been
\* Active has published one join, at most one leave, and calls remove
\* once: by the time it is closed it has published the leave and removed
\* its name exactly once, and before that it has not removed it.  A
\* session that has not been Active has published neither announcement.
C19_OnceOnly ==
    /\ [](\A s \in Sessions :
            /\ EverActive(s) =>
                /\ joined[s] = 1
                /\ left[s] = (IF pc[s] = "active" THEN 0 ELSE 1)
                /\ removed[s] = (IF pc[s] = "closed" THEN 1 ELSE 0)
            /\ ~EverActive(s) =>
                (joined[s] = 0 /\ left[s] = 0 /\ removed[s] = 0))
    /\ [][\A s \in Sessions :
            (pc[s] # "active" /\ pc'[s] = "active") => ~EverActive(s)]_vars

\* One session has been Active and has closed, another was rejected and
\* has closed.
C19_Witness ==
    \E s, t \in Sessions :
        /\ pc[s] = "closed" /\ EverActive(s) /\ Claimed(s)
        /\ joined[s] = 1 /\ left[s] = 1 /\ removed[s] = 1
        /\ pc[t] = "closed" /\ Rejected(t) /\ joined[t] = 0

\* C20: once the handler is past select!, neither task of the session
\* takes a frame from the peer, publishes, or gives a frame to the peer;
\* and no task of a closed session is still running.
C20_SiblingStopsAtOnce ==
    /\ [](\A s \in Sessions :
            pc[s] = "closed" => (~SendRuns(s) /\ ~RecvRuns(s)))
    /\ [][\A s \in Sessions :
            pc[s] \in {"release", "closed"} =>
                /\ sent'[s] = sent[s]
                /\ pubAt'[s] = pubAt[s]
                /\ streamOver'[s] = streamOver[s]]_vars

\* ------------------------------------------- properties of the two pumps

\* A step in which the recv_task of session s takes a text frame.
TakesText(s) == pubAt'[s] # pubAt[s]

C22_LeaveActiveCauses ==
    [][\A s \in Sessions :
        /\ RecvOther(s) => recvPc'[s] = recvPc[s]
        /\ (pc[s] = "active" /\ pc'[s] = "release") =>
                \/ recvPc[s] = "done"
                \/ sendPc[s] = "done" /\ ~lagged[s]]_vars

\* A step in which check_username runs for session s.
ChecksName(s) == firstFrame'[s] # firstFrame[s]

\* C23: check_username runs at most once per session, in the naming loop
\* and for a text frame; a rejected session ends without another attempt;
\* a frame that is not a text frame changes nothing; and a text frame that
\* recv_task takes is published and changes neither the registry nor any
\* username.
C23_OneClaimAttempt ==
    /\ [](\A s \in Sessions :
            Rejected(s) => pc[s] \in {"reject", "closed"})
    /\ [][/\ \A s \in Sessions :
                /\ ChecksName(s) =>
                        /\ ~Attempted(s)
                        /\ pc[s] = "naming"
                        /\ \E name \in FirstFrames : firstFrame'[s] = <<name>>
                /\ NamingOther(s) => UNCHANGED vars
                /\ TakesText(s) =>
                        /\ Len(log') = Len(log) + 1
                        /\ UNCHANGED <<user_set, username, firstFrame>>
          /\ (user_set' # user_set \/ username' # username) =>
                \E s \in Sessions :
                    \/ ChecksName(s)
                    \/ pc[s] = "release" /\ username' = username]_vars

\* A session was rejected and has closed after its one attempt, and the
\* session that holds the name has published a text since.
C23_Witness ==
    \E s, t \in Sessions :
        /\ Rejected(s) /\ pc[s] = "closed" /\ Asked(s) = "alice"
        /\ Claimed(t) /\ username[t] = "alice" /\ pc[t] = "active"
        /\ pubAt[t] # {}
        /\ user_set = {"alice"}

\* C24: when a session is closed, no name it inserted into user_set is
\* still there unless another session holds it; so when every session is
\* closed, user_set is empty.
C24_NoGhostReservations ==
    /\ \A s \in Sessions :
            (pc[s] = "closed" /\ Attempted(s) /\ Asked(s) \in user_set) =>
                \E t \in Sessions \ {s} : Holds(t) /\ username[t] = Asked(s)
    /\ (\A s \in Sessions : pc[s] = "closed") => user_set = {}

\* Receiver::recv returns Err(Closed) only when no Sender handle is left.
BusClosed == senders = 0

\* C25: the bus is never closed: a Sender handle always exists, so no read
\* of the bus can return Closed; while a session's recv_task runs there
\* are at least two, AppState.tx and the task's clone.
C25_BusNeverClosed ==
    /\ ~BusClosed
    /\ senders = 1 + Cardinality({s \in Sessions : RecvRuns(s)})
    /\ \A s \in Sessions : RecvRuns(s) => senders >= 2

\* The pump of an Active session waits for the bus after every recv_task
\* has ended and dropped its clone.
C25_Witness ==
    \E s \in Sessions :
        /\ pc[s] = "active" /\ sendPc[s] = "recv" /\ recvPc[s] = "done"
        /\ Recv(log, cursor[s]).kind = "empty"
        /\ senders = 1
        /\ \A t \in Sessions \ {s} : pc[t] = "closed" /\ joined[t] = 1

\* The handler or one of the tasks of session s is at an await: for a
\* frame from the peer, for a write to the peer, or for the bus.
Waiting(s) ==
    \/ pc[s] \in {"naming", "reject", "active"}
    \/ SendRuns(s)
    \/ RecvRuns(s)

\* C26: no session holds the guard of user_set while it waits, and every
\* change of user_set is made by a step that takes the lock and gives it
\* back: the test with the insert, or the remove.
C26_NoLockAcrossAwait ==
    /\ [](\A s \in Sessions : Waiting(s) => s \notin lock)
    /\ [][user_set' # user_set =>
            /\ lock = {} /\ lock' = {}
            /\ \E s \in Sessions :
                \/ pc[s] = "naming" /\ \E name \in FirstFrames :
                        user_set' = user_set \cup {name}
                \/ pc[s] = "release" /\ user_set' = user_set \ {username[s]}]_vars

\* One session waits in select! with its name in user_set while another,
\* whose check failed, is about to write the notice.
C26_Witness ==
    \E s, t \in Sessions :
        /\ pc[s] = "active" /\ Claimed(s) /\ username[s] \in user_set
        /\ pc[t] = "reject" /\ Asked(t) = username[s]
        /\ lock = {}

\* C27: every step that removes an entry from user_set is the remove of a
\* session that claimed that very name, so no session removes an entry
\* that another session inserted.
C27_RemovesOwnNameOnly ==
    [][\A n \in FirstFrames :
        (n \in user_set /\ n \notin user_set') =>
            \E s \in Sessions :
                /\ pc[s] = "release" /\ pc'[s] = "closed"
                /\ Claimed(s) /\ Asked(s) = n /\ username[s] = n]_vars

\* How often value m occurs among the first k values of the log.
CountUpTo(m, k) == Cardinality({i \in 1..k : log[i] = m})

\* C28: for every name, in every prefix of the log the joins of the name
\* are as many as its leaves or one more: the two announcements alternate
\* and a join comes first.
C28_JoinLeaveAlternate ==
    \A n \in FirstFrames : \A k \in 0..Len(log) :
        \/ CountUpTo(JoinedMsg(n), k) = CountUpTo(LeftMsg(n), k)
        \/ CountUpTo(JoinedMsg(n), k) = CountUpTo(LeftMsg(n), k) + 1

\* C29: a session's recv_task publishes a text only after the session has
\* published its join and before it has published its leave.
C29_TextsBetweenJoinAndLeave ==
    [][\A s \in Sessions :
        TakesText(s) => (joined[s] = 1 /\ left[s] = 0)]_vars

\* C30: a session has subscribed when it publishes its join: the receiver
\* stands where the log ended when it subscribed, the join lies after
\* that place, and once the pump of an Active session that has not lagged
\* has reached the join, the join and every value after it, up to the
\* receiver's place, are among the frames of the session, in order.
C30_SubscribedBeforeJoin ==
    \A s \in Sessions :
        /\ pc[s] = "join" => (rx[s] = "live" /\ cursor[s] = subAt[s])
        /\ joined[s] > 0 =>
            /\ joinAt[s] > subAt[s]
            /\ log[joinAt[s]] = username[s] \o " joined."
        /\ (ActiveNoLag(s) /\ cursor[s] >= joinAt[s]) =>
                \A i \in joinAt[s]..cursor[s] :
                    /\ i - subAt[s] \in DOMAIN sent[s]
                    /\ sent[s][i - subAt[s]] = log[i]
                    /\ readAt[s][i - subAt[s]] = i

\* A session that subscribed after other values were published has been
\* given its own join and a value published after it.
C30_Witness ==
    \E s \in Sessions :
        /\ ActiveNoLag(s)
        /\ subAt[s] >= 1
        /\ Len(sent[s]) >= 2
        /\ sent[s][1] = username[s] \o " joined."
        /\ readAt[s][1] = joinAt[s]

====
